---- MODULE Spec2Model ----
(***************************************************************************)
(* Address registry (AddressBook), PDA derivation (pda_seeds) and the      *)
(* TestSVM start-up sequence of macalinao/testsvm.                         *)
(*                                                                         *)
(* A Pubkey is a tuple of KeyLen bytes, a String is a tuple of one-        *)
(* character strings, a Vec is a sequence, a HashMap is a function whose   *)
(* DOMAIN is the set of keys present, a HashSet is a set.                  *)
(***************************************************************************)
EXTENDS Integers, Sequences, FiniteSets, TLC

-----------------------------------------------------------------------------
(* Bytes, keys and their textual encoding *)

\* Width of a Pubkey in bytes (32 in the program, scaled for checking).
KeyLen == 2

\* Largest bump candidate, u8::MAX in the program, scaled for checking.
MaxBump == 3

\* Number of distinct digests of the derivation hash.
HashRange == 3

\* Longest seed the derivation accepts: as long as a Pubkey (32 in the program).
MaxSeedLen == KeyLen

\* Most seeds one derivation accepts, the bump included (16 in the program).
MaxSeeds == 3

\* Most calls of advance_time a test makes.
MaxAdvances == 3

\* Bits of the clock's integers: u64 and i64 in the program, scaled for
\* checking.
ClockBits == 10

Base58Alphabet ==
    << "1","2","3","4","5","6","7","8","9",
       "A","B","C","D","E","F","G","H","J","K","L","M","N","P","Q","R","S",
       "T","U","V","W","X","Y","Z",
       "a","b","c","d","e","f","g","h","i","j","k","m","n","o","p","q","r",
       "s","t","u","v","w","x","y","z" >>

\* Printable ASCII, bytes 32..126, in byte order ("GRAVE" stands for byte 96).
AsciiTable ==
    << " ","!","\"","#","$","%","&","'","(",")","*","+",",","-",".","/",
       "0","1","2","3","4","5","6","7","8","9",":",";","<","=",">","?",
       "@","A","B","C","D","E","F","G","H","I","J","K","L","M","N","O",
       "P","Q","R","S","T","U","V","W","X","Y","Z","[","\\","]","^","_",
       "GRAVE","a","b","c","d","e","f","g","h","i","j","k","l","m","n","o",
       "p","q","r","s","t","u","v","w","x","y","z","{","|","}","~" >>

HexDigits == << "0","1","2","3","4","5","6","7","8","9","a","b","c","d","e","f" >>

RECURSIVE BytesToInt(_)
BytesToInt(bytes) ==
    IF bytes = << >> THEN 0
    ELSE 256 * BytesToInt(SubSeq(bytes, 1, Len(bytes) - 1)) + bytes[Len(bytes)]

RECURSIVE IntToBytes(_, _)
IntToBytes(n, len) ==
    IF len = 0 THEN << >>
    ELSE Append(IntToBytes(n \div 256, len - 1), n % 256)

\* The Pubkey whose big-endian value is n.
Key(n) == IntToBytes(n, KeyLen)

RECURSIVE LeadingZeros(_)
LeadingZeros(bytes) ==
    IF bytes = << >> \/ bytes[1] # 0 THEN 0
    ELSE 1 + LeadingZeros(Tail(bytes))

RECURSIVE Base58Digits(_)
Base58Digits(n) ==
    IF n = 0 THEN << >>
    ELSE Append(Base58Digits(n \div 58), Base58Alphabet[(n % 58) + 1])

\* Pubkey::to_string: base58, one "1" per leading zero byte.
to_string(pubkey) ==
    [i \in 1..LeadingZeros(pubkey) |-> "1"] \o Base58Digits(BytesToInt(pubkey))

\* str::as_bytes for ASCII text.
RECURSIVE AsciiIndex(_, _)
AsciiIndex(c, i) ==
    IF i > Len(AsciiTable) THEN 0
    ELSE IF AsciiTable[i] = c THEN i ELSE AsciiIndex(c, i + 1)

as_bytes(s) == [i \in 1..Len(s) |-> AsciiIndex(s[i], 1) + 31]

-----------------------------------------------------------------------------
(* Well-known addresses, test keys, labels *)

SystemProgramId == Key(0)
TokenProgramId == Key(1000)
AssociatedTokenProgramId == Key(40000)

K1 == Key(300)
K2 == Key(17407)
K3 == Key(901)

L_system_program == <<"s","y","s","t","e","m","_","p","r","o","g","r","a","m">>
L_token_program == <<"t","o","k","e","n","_","p","r","o","g","r","a","m">>
L_associated_token_program ==
    <<"a","s","s","o","c","i","a","t","e","d","_","t","o","k","e","n","_",
      "p","r","o","g","r","a","m">>
L_default_fee_payer ==
    <<"d","e","f","a","u","l","t","_","f","e","e","_","p","a","y","e","r">>
L_alice == <<"a","l","i","c","e">>
L_vault == <<"v","a","u","l","t">>
S_governance == <<"g","o","v","e","r","n","a","n","c","e">>

VARIABLES
    addresses,            \* HashMap<Pubkey, Vec<(String, RegisteredAddress)>>
    registered_addresses, \* HashSet<RegisteredAddress>
    labels,               \* HashMap<String, RegisteredAddress>
    last,                 \* the most recent call: its arguments and its outcome
    curve,                \* the digests that are points of the curve
    derived,              \* per derivation input, the first outcome seen for it
    default_fee_payer,    \* TestSVM.default_fee_payer's pubkey (<< >> before it exists)
    pc,                   \* position in TestSVM::init ("book": a bare AddressBook)
    frame,                \* locals of a running try_find_program_address (<< >>: none)
    clock                 \* the Clock sysvar of the LiteSVM: slot and unix_timestamp

vars ==
    <<addresses, registered_addresses, labels, last, curve, derived,
      default_fee_payer, pc, frame, clock>>
book_vars == <<addresses, registered_addresses, labels>>

-----------------------------------------------------------------------------
(* AddressRole and RegisteredAddress *)

Wallet == [kind |-> "wallet"]
Mint == [kind |-> "mint"]
Program == [kind |-> "program"]
Ata(mint_key, owner) == [kind |-> "ata", mint |-> mint_key, owner |-> owner]
Pda(seeds, program_id, bump) ==
    [kind |-> "pda", seeds |-> seeds, program_id |-> program_id, bump |-> bump]
Custom(name) == [kind |-> "custom", name |-> name]

RegisteredAddress_new(address, role) == [key |-> address, role |-> role]
wallet(address) == RegisteredAddress_new(address, Wallet)
mint(address) == RegisteredAddress_new(address, Mint)
ata(address, mint_key, owner) == RegisteredAddress_new(address, Ata(mint_key, owner))
custom(address, custom_role) == RegisteredAddress_new(address, Custom(custom_role))
program(address) == RegisteredAddress_new(address, Program)
pda_from_parts(pubkey, seeds, program_id, bump) ==
    RegisteredAddress_new(pubkey, Pda(seeds, program_id, bump))

-----------------------------------------------------------------------------
(* AddressBook.  A book is the record of the three indices; every operation  *)
(* returns [ok, book]: the Result and the indices after the call.            *)

AddressBook_new ==
    [addresses |-> << >>, registered_addresses |-> {}, labels |-> << >>]

Book ==
    [addresses |-> addresses,
     registered_addresses |-> registered_addresses,
     labels |-> labels]

\* The book after a step.
BookNext ==
    [addresses |-> addresses',
     registered_addresses |-> registered_addresses',
     labels |-> labels']

\* Variant of push_entry: the new entry goes to the front of the Vec.
push_entry_front(map, pubkey, entry) ==
    IF pubkey \in DOMAIN map
    THEN [map EXCEPT ![pubkey] = <<entry>> \o @]
    ELSE (pubkey :> <<entry>>) @@ map

\* self.addresses.entry(pubkey).or_default().push(entry)
push_entry(map, pubkey, entry) ==
    IF pubkey \in DOMAIN map
    THEN [map EXCEPT ![pubkey] = Append(@, entry)]
    ELSE (pubkey :> <<entry>>) @@ map

\* The three inserts of add, with no look at the label index first.
insert_all(book, pubkey, label, registered_address) ==
    [ok |-> TRUE,
     book |->
       [labels |-> (label :> registered_address) @@ book.labels,
        registered_addresses |-> book.registered_addresses \cup {registered_address},
        addresses |->
            push_entry(book.addresses, pubkey, <<label, registered_address>>)]]

\* Variant of add: a bound label is checked against the key only, not the role.
add_key_only(book, pubkey, label, registered_address) ==
    IF label \in DOMAIN book.labels
    THEN IF book.labels[label].key # pubkey
         THEN [ok |-> FALSE, book |-> book]
         ELSE [ok |-> TRUE, book |-> book]
    ELSE insert_all(book, pubkey, label, registered_address)

\* Variant of add: no duplicate-label check at all.
add_unchecked(book, pubkey, label, registered_address) ==
    insert_all(book, pubkey, label, registered_address)

\* Variant of add: re-registering a bound label with the same key and role
\* inserts again instead of returning early.
add_reinsert(book, pubkey, label, registered_address) ==
    IF label \in DOMAIN book.labels
          /\ (book.labels[label].key # pubkey
                \/ book.labels[label].role # registered_address.role)
    THEN [ok |-> FALSE, book |-> book]
    ELSE insert_all(book, pubkey, label, registered_address)

\* Variant of add: the HashSet insert is left out.
add_no_set(book, pubkey, label, registered_address) ==
    IF label \in DOMAIN book.labels
    THEN IF book.labels[label].key # pubkey
               \/ book.labels[label].role # registered_address.role
         THEN [ok |-> FALSE, book |-> book]
         ELSE [ok |-> TRUE, book |-> book]
    ELSE [ok |-> TRUE,
          book |->
            [labels |-> (label :> registered_address) @@ book.labels,
             registered_addresses |-> book.registered_addresses,
             addresses |->
                 push_entry(book.addresses, pubkey, <<label, registered_address>>)]]

\* Variant of add: a conflicting label is rebound to the new registration.
add_rebind(book, pubkey, label, registered_address) ==
    IF label \in DOMAIN book.labels
    THEN IF book.labels[label].key # pubkey
               \/ book.labels[label].role # registered_address.role
         THEN [ok |-> FALSE,
               book |-> [book EXCEPT !.labels[label] = registered_address]]
         ELSE [ok |-> TRUE, book |-> book]
    ELSE insert_all(book, pubkey, label, registered_address)

\* Variant of add: the member put into the HashSet carries the label.
add_labelled_member(book, pubkey, label, registered_address) ==
    IF label \in DOMAIN book.labels
    THEN IF book.labels[label].key # pubkey
               \/ book.labels[label].role # registered_address.role
         THEN [ok |-> FALSE, book |-> book]
         ELSE [ok |-> TRUE, book |-> book]
    ELSE [ok |-> TRUE,
          book |->
            [labels |-> (label :> registered_address) @@ book.labels,
             registered_addresses |->
                 book.registered_addresses
                     \cup {[key |-> registered_address.key,
                            role |-> registered_address.role,
                            label |-> label]},
             addresses |->
                 push_entry(book.addresses, pubkey, <<label, registered_address>>)]]

add(book, pubkey, label, registered_address) ==
    IF label \in DOMAIN book.labels
    THEN LET existing_address == book.labels[label] IN
         IF existing_address.key # pubkey
               \/ existing_address.role # registered_address.role
         THEN [ok |-> FALSE, book |-> book]
         ELSE [ok |-> TRUE, book |-> book]
    ELSE [ok |-> TRUE,
          book |->
            [labels |-> (label :> registered_address) @@ book.labels,
             registered_addresses |->
                 book.registered_addresses \cup {registered_address},
             addresses |->
                 push_entry(book.addresses, pubkey, <<label, registered_address>>)]]

add_wallet(book, pubkey, label) == add(book, pubkey, label, wallet(pubkey))
add_mint(book, pubkey, label) == add(book, pubkey, label, mint(pubkey))
add_ata(book, pubkey, label, mint_key, owner) ==
    add(book, pubkey, label, ata(pubkey, mint_key, owner))
add_custom(book, pubkey, label, custom_role) ==
    add(book, pubkey, label, custom(pubkey, custom_role))
add_pda(book, pubkey, label, seeds, program_id, bump) ==
    add(book, pubkey, label, pda_from_parts(pubkey, seeds, program_id, bump))
add_program(book, pubkey, label) == add(book, pubkey, label, program(pubkey))

\* Variant of add_default_accounts: the associated token program is left out.
add_default_accounts_two(book) ==
    LET r1 == add_program(book, SystemProgramId, L_system_program)
        r2 == add_program(r1.book, TokenProgramId, L_token_program)
    IN  IF ~r1.ok THEN r1 ELSE r2

\* Variant of add_default_accounts: all or nothing, an error leaves the
\* registry as it was.
add_default_accounts_atomic(book) ==
    LET r1 == add_program(book, SystemProgramId, L_system_program)
        r2 == add_program(r1.book, TokenProgramId, L_token_program)
        r3 == add_program(r2.book, AssociatedTokenProgramId,
                          L_associated_token_program)
    IN  IF r1.ok /\ r2.ok /\ r3.ok THEN r3 ELSE [ok |-> FALSE, book |-> book]

\* Three add_program calls, each followed by `?`.
add_default_accounts(book) ==
    LET r1 == add_program(book, SystemProgramId, L_system_program)
        r2 == add_program(r1.book, TokenProgramId, L_token_program)
        r3 == add_program(r2.book, AssociatedTokenProgramId,
                          L_associated_token_program)
    IN  IF ~r1.ok THEN r1 ELSE IF ~r2.ok THEN r2 ELSE r3

\* Queries
get(book, pubkey) ==
    IF pubkey \in DOMAIN book.addresses
    THEN [some |-> TRUE, value |-> book.addresses[pubkey]]
    ELSE [some |-> FALSE]

get_first(book, pubkey) ==
    IF pubkey \in DOMAIN book.addresses /\ Len(book.addresses[pubkey]) > 0
    THEN [some |-> TRUE,
          label |-> book.addresses[pubkey][1][1],
          registered_address |-> book.addresses[pubkey][1][2]]
    ELSE [some |-> FALSE]

\* Variant of get_label: the label of the newest registration of the key.
get_label_newest(book, pubkey) ==
    IF pubkey \in DOMAIN book.addresses /\ Len(book.addresses[pubkey]) > 0
    THEN book.addresses[pubkey][Len(book.addresses[pubkey])][1]
    ELSE to_string(pubkey)

get_label(book, pubkey) ==
    IF pubkey \in DOMAIN book.addresses /\ Len(book.addresses[pubkey]) > 0
    THEN book.addresses[pubkey][1][1]
    ELSE to_string(pubkey)

\* Variant of len: the bound labels are counted.
len_labels(book) == Cardinality(DOMAIN book.labels)

contains(book, pubkey) == pubkey \in DOMAIN book.addresses
len(book) == Cardinality(DOMAIN book.addresses)
is_empty(book) == DOMAIN book.addresses = {}

\* Variant of get_by_role: only the variant of the role is compared.
RECURSIVE get_by_role_kind(_, _, _)
get_by_role_kind(book, role, iter) ==
    IF iter = << >> THEN [some |-> FALSE]
    ELSE IF iter[1].role.kind = role.kind THEN [some |-> TRUE, value |-> iter[1].key]
         ELSE get_by_role_kind(book, role, Tail(iter))

\* get_by_role: the key of the first registration, in the order the HashSet
\* iterates (iter), whose role equals the given one
RECURSIVE get_by_role(_, _, _)
get_by_role(book, role, iter) ==
    IF iter = << >> THEN [some |-> FALSE]
    ELSE IF iter[1].role = role THEN [some |-> TRUE, value |-> iter[1].key]
         ELSE get_by_role(book, role, Tail(iter))

\* Variant of get_all_by_role_type: the scan ends at the first match.
RECURSIVE get_all_by_role_type_first(_, _, _)
get_all_by_role_type_first(book, role_type, iter) ==
    IF iter = << >> THEN << >>
    ELSE IF /\ iter[1].role.kind = role_type
            /\ role_type \in {"wallet", "mint", "program", "ata", "pda", "custom"}
         THEN <<iter[1].key>>
         ELSE get_all_by_role_type_first(book, role_type, Tail(iter))

\* get_all_by_role_type: the keys of the registrations of the given kind, in
\* the order the HashSet iterates; a kind of no variant matches nothing
RECURSIVE get_all_by_role_type(_, _, _)
get_all_by_role_type(book, role_type, iter) ==
    IF iter = << >> THEN << >>
    ELSE (IF /\ iter[1].role.kind = role_type
             /\ role_type \in {"wallet", "mint", "program", "ata", "pda", "custom"}
          THEN <<iter[1].key>> ELSE << >>)
         \o get_all_by_role_type(book, role_type, Tail(iter))

-----------------------------------------------------------------------------
(* Rendering: format_address and replace_addresses_in_text.  A String is a   *)
(* sequence of characters; "ESC" stands for the escape character the colored *)
(* crate writes.                                                              *)

Esc == "ESC"

\* The colored crate: "\x1b[1;<fg>m" text "\x1b[0m" for a bold coloured
\* string, "\x1b[2m" text "\x1b[0m" for a dimmed one, the bare text when
\* colouring is switched off in the environment.
bold(text, fg, colorize) ==
    IF colorize
    THEN <<Esc, "[", "1", ";">> \o fg \o <<"m">> \o text \o <<Esc, "[", "0", "m">>
    ELSE text

bright_red(text, colorize) ==
    IF colorize
    THEN <<Esc, "[", "9", "1", "m">> \o text \o <<Esc, "[", "0", "m">>
    ELSE text

dimmed(text, colorize) ==
    IF colorize
    THEN <<Esc, "[", "2", "m">> \o text \o <<Esc, "[", "0", "m">>
    ELSE text

\* bright_cyan, bright_green, bright_yellow, bright_magenta, bright_blue,
\* bright_white
role_color(role) ==
    CASE role.kind = "wallet" -> <<"9", "6">>
      [] role.kind = "mint" -> <<"9", "2">>
      [] role.kind = "ata" -> <<"9", "3">>
      [] role.kind = "pda" -> <<"9", "5">>
      [] role.kind = "program" -> <<"9", "4">>
      [] role.kind = "custom" -> <<"9", "7">>

\* "[wallet]", "[mint]", "[ata]", "[pda:<first seed>]", "[program]", "[<role>]"
role_tag(role) ==
    CASE role.kind = "wallet" -> <<"[", "w", "a", "l", "l", "e", "t", "]">>
      [] role.kind = "mint" -> <<"[", "m", "i", "n", "t", "]">>
      [] role.kind = "ata" -> <<"[", "a", "t", "a", "]">>
      [] role.kind = "pda" ->
            <<"[", "p", "d", "a", ":">>
            \o (IF Len(role.seeds) > 0 THEN role.seeds[1] ELSE << >>) \o <<"]">>
      [] role.kind = "program" -> <<"[", "p", "r", "o", "g", "r", "a", "m", "]">>
      [] role.kind = "custom" -> <<"[">> \o role.name \o <<"]">>

format_address(book, pubkey, colorize) ==
    LET first == get_first(book, pubkey) IN
    IF first.some
    THEN bold(first.label, role_color(first.registered_address.role), colorize)
         \o <<" ">> \o dimmed(role_tag(first.registered_address.role), colorize)
    ELSE bright_red(to_string(pubkey), colorize)

\* text[i..] starts with pat
starts_with_at(text, i, pat) ==
    /\ i + Len(pat) - 1 <= Len(text)
    /\ \A j \in 1..Len(pat) : text[i + j - 1] = pat[j]

\* Variant of str_replace: only the first match is replaced (replacen(.., 1)).
RECURSIVE str_replace_first(_, _, _)
str_replace_first(text, from, to) ==
    IF text = << >> THEN << >>
    ELSE IF starts_with_at(text, 1, from)
         THEN to \o SubSeq(text, Len(from) + 1, Len(text))
         ELSE <<text[1]>> \o str_replace_first(Tail(text), from, to)

\* str::replace: every non-overlapping match, left to right
RECURSIVE str_replace(_, _, _)
str_replace(text, from, to) ==
    IF text = << >> THEN << >>
    ELSE IF starts_with_at(text, 1, from)
         THEN to \o str_replace(SubSeq(text, Len(from) + 1, Len(text)), from, to)
         ELSE <<text[1]>> \o str_replace(Tail(text), from, to)

\* Stable insertion of one key into a list sorted by Reverse(to_string().len())
RECURSIVE insert_sorted(_, _)
insert_sorted(sorted, pubkey) ==
    IF sorted = << >> THEN <<pubkey>>
    ELSE IF Len(to_string(sorted[1])) >= Len(to_string(pubkey))
         THEN <<sorted[1]>> \o insert_sorted(Tail(sorted), pubkey)
         ELSE <<pubkey>> \o sorted

\* Variant of sort_by_key: the iteration order is kept, nothing is sorted.
sort_by_key_unsorted(iter) == iter

\* sort_by_key(|(pubkey, _)| Reverse(pubkey.to_string().len())), a stable sort
\* of the keys in the order the HashMap iterates them
RECURSIVE sort_by_key(_)
sort_by_key(iter) ==
    IF iter = << >> THEN << >>
    ELSE insert_sorted(sort_by_key(SubSeq(iter, 1, Len(iter) - 1)), iter[Len(iter)])

\* Variant of replacement: the newest label of the key is rendered.
replacement_newest(book, pubkey, colorize) ==
    LET entry == book.addresses[pubkey][Len(book.addresses[pubkey])] IN
    bold(entry[1], role_color(entry[2].role), colorize)

\* The replacement for one key: its first label, bold, in the colour of the
\* first registration's role.
replacement(book, pubkey, colorize) ==
    LET entry == book.addresses[pubkey][1] IN
    bold(entry[1], role_color(entry[2].role), colorize)

\* The loop of replace_addresses_in_text over the sorted keys
RECURSIVE replace_each(_, _, _, _)
replace_each(book, result, sorted_addresses, colorize) ==
    IF sorted_addresses = << >> THEN result
    ELSE replace_each(book,
                      str_replace(result, to_string(sorted_addresses[1]),
                                  replacement(book, sorted_addresses[1], colorize)),
                      Tail(sorted_addresses), colorize)

\* AddressBook::replace_addresses_in_text; iter is the order in which
\* self.addresses.iter() yields the keys
replace_addresses_in_text(book, text, iter, colorize) ==
    replace_each(book, text, sort_by_key(iter), colorize)

\* The orders a HashMap or HashSet may iterate S in
Perms(S) ==
    {f \in [1..Cardinality(S) -> S] : \A i, j \in 1..Cardinality(S) : f[i] = f[j] => i = j}

-----------------------------------------------------------------------------
(* Derivation: Pubkey::find_program_address as pda_seeds.rs calls it.  The   *)
(* hash is a fixed function of the bytes hashed; which digests are points   *)
(* of the curve is the variable `curve`, chosen once and never changed.      *)

PdaMarker ==
    as_bytes(<<"P","r","o","g","r","a","m","D","e","r","i","v","e","d",
               "A","d","d","r","e","s","s">>)

RECURSIVE Flatten(_)
Flatten(seqs) == IF seqs = << >> THEN << >> ELSE seqs[1] \o Flatten(Tail(seqs))

RECURSIVE Mix(_, _)
Mix(bytes, acc) ==
    IF bytes = << >> THEN acc
    ELSE Mix(Tail(bytes), (acc * 31 + bytes[1] + 1) % 65521)

\* hashv(seeds..., program_id, PDA_MARKER) as a Pubkey
Digest(seeds, program_id) ==
    Key(4242 + 9001 * (Mix(Flatten(seeds) \o program_id \o PdaMarker, 7) % HashRange))

Digests == {Key(4242 + 9001 * i) : i \in 0..(HashRange - 1)}

bytes_are_curve_point(key) == key \in curve

\* Variant of create_program_address: the curve check is left out.
create_program_address_any(seeds, program_id) ==
    IF Len(seeds) > MaxSeeds \/ \E i \in 1..Len(seeds) : Len(seeds[i]) > MaxSeedLen
    THEN [err |-> "MaxSeedLengthExceeded"]
    ELSE [err |-> "none", key |-> Digest(seeds, program_id)]

create_program_address(seeds, program_id) ==
    IF Len(seeds) > MaxSeeds \/ \E i \in 1..Len(seeds) : Len(seeds[i]) > MaxSeedLen
    THEN [err |-> "MaxSeedLengthExceeded"]
    ELSE LET hash == Digest(seeds, program_id) IN
         IF bytes_are_curve_point(hash)
         THEN [err |-> "InvalidSeeds"]
         ELSE [err |-> "none", key |-> hash]

\* The loop of try_find_program_address: bump_seed starts at u8::MAX and the
\* loop body runs u8::MAX times.
RECURSIVE bump_search(_, _, _, _)
bump_search(seeds, program_id, bump_seed, iterations) ==
    IF iterations = 0 THEN [some |-> FALSE]
    ELSE LET r == create_program_address(Append(seeds, <<bump_seed>>), program_id) IN
         IF r.err = "none" THEN [some |-> TRUE, key |-> r.key, bump |-> bump_seed]
         ELSE IF r.err = "InvalidSeeds"
              THEN bump_search(seeds, program_id, bump_seed - 1, iterations - 1)
              ELSE [some |-> FALSE]

try_find_program_address(seeds, program_id) ==
    bump_search(seeds, program_id, MaxBump, MaxBump)

\* Variant of find_program_address: the search starts one candidate lower once
\* something is registered, so the result is no function of the inputs alone.
find_program_address_stateful(seeds, program_id) ==
    LET start == IF labels = << >> THEN MaxBump ELSE MaxBump - 1
        r == bump_search(seeds, program_id, start, start)
    IN  IF r.some THEN [panic |-> FALSE, key |-> r.key, bump |-> r.bump]
        ELSE [panic |-> TRUE]

\* Variant of find_program_address: unwrap_or_default() in place of the panic.
find_program_address_default(seeds, program_id) ==
    LET r == try_find_program_address(seeds, program_id) IN
    IF r.some THEN [panic |-> FALSE, key |-> r.key, bump |-> r.bump]
    ELSE [panic |-> FALSE, key |-> Key(0), bump |-> 0]

\* unwrap_or_else(|| panic!(..))
find_program_address(seeds, program_id) ==
    LET r == try_find_program_address(seeds, program_id) IN
    IF r.some THEN [panic |-> FALSE, key |-> r.key, bump |-> r.bump]
    ELSE [panic |-> TRUE]

is_ascii_graphic(b) == b >= 33 /\ b <= 126

from_utf8(bytes) == [i \in 1..Len(bytes) |-> AsciiTable[bytes[i] - 31]]

hex_encode(bytes) ==
    Flatten([i \in 1..Len(bytes) |->
                <<HexDigits[(bytes[i] \div 16) + 1], HexDigits[(bytes[i] % 16) + 1]>>])

\* Variant of seed_to_string: the length rule is tried before the printable
\* rule.
seed_to_string_key_first(seed) ==
    IF Len(seed) = KeyLen
    THEN to_string(seed)
    ELSE IF \A i \in 1..Len(seed) : is_ascii_graphic(seed[i]) \/ seed[i] = 32
         THEN from_utf8(seed)
         ELSE hex_encode(seed)

seed_to_string(seed) ==
    IF \A i \in 1..Len(seed) : is_ascii_graphic(seed[i]) \/ seed[i] = 32
    THEN from_utf8(seed)
    ELSE IF Len(seed) = KeyLen
         THEN to_string(seed)
         ELSE hex_encode(seed)

find_pda_with_bump(seeds, program_id) == find_program_address(seeds, program_id)

\* Variant of find_pda_with_bump_and_strings: the stored seeds and their debug
\* strings are collected last seed first.
find_pda_with_bump_and_strings_reversed(seeds, program_id) ==
    LET r == find_program_address(seeds, program_id)
        n == Len(seeds)
    IN  IF r.panic THEN [panic |-> TRUE]
        ELSE [panic |-> FALSE,
              key |-> r.key,
              bump |-> r.bump,
              seed_strings |-> [i \in 1..n |-> seed_to_string(seeds[n + 1 - i])],
              seeds |-> [i \in 1..n |-> seeds[n + 1 - i]]]

\* Variant of find_pda_with_bump_and_strings: the address is derived from the
\* bytes of the debug strings, not from the seeds' own bytes.
find_pda_with_bump_and_strings_from_strings(seeds, program_id) ==
    LET seed_strings == [i \in 1..Len(seeds) |-> seed_to_string(seeds[i])]
        r == find_program_address([i \in 1..Len(seeds) |-> as_bytes(seed_strings[i])],
                                  program_id)
    IN  IF r.panic THEN [panic |-> TRUE]
        ELSE [panic |-> FALSE,
              key |-> r.key,
              bump |-> r.bump,
              seed_strings |-> seed_strings,
              seeds |-> seeds]

find_pda_with_bump_and_strings(seeds, program_id) ==
    LET r == find_program_address(seeds, program_id) IN
    IF r.panic THEN [panic |-> TRUE]
    ELSE [panic |-> FALSE,
          key |-> r.key,
          bump |-> r.bump,
          seed_strings |-> [i \in 1..Len(seeds) |-> seed_to_string(seeds[i])],
          seeds |-> seeds]

\* Variant of DerivedPda::verify: the bump is not compared.
verify_key_only(pda, program_id) ==
    LET r == find_program_address(pda.seeds, program_id) IN
    IF r.panic THEN [panic |-> TRUE]
    ELSE [panic |-> FALSE, value |-> pda.key = r.key]

\* DerivedPda::verify
verify(pda, program_id) ==
    LET r == find_program_address(pda.seeds, program_id) IN
    IF r.panic THEN [panic |-> TRUE]
    ELSE [panic |-> FALSE, value |-> (pda.key = r.key /\ pda.bump = r.bump)]

\* Variant of AddressBook::find_pda_with_bump: the `?` after add_pda is missing.
AddressBook_find_pda_with_bump_no_try(book, label, seeds, program_id) ==
    LET derived_pda == find_pda_with_bump_and_strings(seeds, program_id) IN
    IF derived_pda.panic
    THEN [panic |-> TRUE, ok |-> FALSE, book |-> book]
    ELSE LET r == add_pda(book, derived_pda.key, label, derived_pda.seed_strings,
                          program_id, derived_pda.bump)
         IN  [panic |-> FALSE, ok |-> TRUE, book |-> r.book,
              key |-> derived_pda.key, bump |-> derived_pda.bump]

\* AddressBook::find_pda_with_bump: derive, then add_pda(..)?, then Ok((key, bump)).
AddressBook_find_pda_with_bump(book, label, seeds, program_id) ==
    LET derived_pda == find_pda_with_bump_and_strings(seeds, program_id) IN
    IF derived_pda.panic
    THEN [panic |-> TRUE, ok |-> FALSE, book |-> book]
    ELSE LET r == add_pda(book, derived_pda.key, label, derived_pda.seed_strings,
                          program_id, derived_pda.bump)
         IN  IF r.ok
             THEN [panic |-> FALSE, ok |-> TRUE, book |-> r.book,
                   key |-> derived_pda.key, bump |-> derived_pda.bump]
             ELSE [panic |-> FALSE, ok |-> FALSE, book |-> r.book]

-----------------------------------------------------------------------------
(* The Clock sysvar of the LiteSVM a TestSVM owns *)

\* u64::MAX, i64::MAX and i64::MIN at ClockBits bits
U64_MAX == 2^ClockBits - 1
I64_MAX == 2^(ClockBits - 1) - 1
I64_MIN == -(2^(ClockBits - 1))

\* The Clock sysvar of a new LiteSVM
Clock_default == [slot |-> 0, unix_timestamp |-> 0]

\* `seconds as i64`: the same bits read as a signed integer
as_i64(n) == IF n > I64_MAX THEN n - 2^ClockBits ELSE n

\* a + b on i64: with overflow checks an overflow panics, without them the
\* sum wraps
add_i64(a, b, overflow_checks) ==
    LET sum == a + b IN
    IF sum >= I64_MIN /\ sum <= I64_MAX THEN [panic |-> FALSE, value |-> sum]
    ELSE IF overflow_checks THEN [panic |-> TRUE]
    ELSE [panic |-> FALSE,
          value |-> ((sum - I64_MIN) % 2^ClockBits) + I64_MIN]

\* a + b on u64
add_u64(a, b, overflow_checks) ==
    LET sum == a + b IN
    IF sum <= U64_MAX THEN [panic |-> FALSE, value |-> sum]
    ELSE IF overflow_checks THEN [panic |-> TRUE]
    ELSE [panic |-> FALSE, value |-> sum % 2^ClockBits]

\* TestSVM::advance_time on the clock c: what set_sysvar stores, or the panic
advance_time(c, seconds, overflow_checks) ==
    LET unix_timestamp == add_i64(c.unix_timestamp, as_i64(seconds), overflow_checks)
        num_slots == seconds \div 450
        slot == add_u64(c.slot, num_slots, overflow_checks)
    IN  IF unix_timestamp.panic \/ slot.panic THEN [panic |-> TRUE, clock |-> c]
        ELSE [panic |-> FALSE,
              clock |-> [slot |-> slot.value,
                         unix_timestamp |-> unix_timestamp.value]]

-----------------------------------------------------------------------------
(* Inputs *)

UserKeys == {K1, K2, K3}
CallLabels == {L_vault, L_token_program}

S_v == <<"v">>
Seed_v == as_bytes(S_v)
Seed_bin == <<7>>
Seed_long == [i \in 1..(MaxSeedLen + 1) |-> i]

SeedLists ==
    { <<Seed_v>>, <<Seed_v, K1>>, <<Seed_bin>>, <<Seed_long>> }
DeriveInputs == SeedLists \X {TokenProgramId, K3}

-----------------------------------------------------------------------------
(* Actions *)

Running == last.outcome # "panic"

SetBook(book) ==
    /\ addresses' = book.addresses
    /\ registered_addresses' = book.registered_addresses
    /\ labels' = book.labels

Outcome(r) == IF r.ok THEN "ok" ELSE "err"

\* One call of add or of a wrapper of it: r is what the call returned.
Call(op, pubkey, label, registered_address, r) ==
    /\ Running
    /\ SetBook(r.book)
    /\ last' = [op |-> op, pubkey |-> pubkey, label |-> label,
                ra |-> registered_address, outcome |-> Outcome(r),
                changed |-> r.book # Book]

AddWallet(pubkey, label) ==
    /\ pc = "book"
    /\ Call("add_wallet", pubkey, label, wallet(pubkey), add_wallet(Book, pubkey, label))
    /\ UNCHANGED <<curve, frame, derived, default_fee_payer, pc, clock>>

AddMint(pubkey, label) ==
    /\ pc = "book"
    /\ Call("add_mint", pubkey, label, mint(pubkey), add_mint(Book, pubkey, label))
    /\ UNCHANGED <<curve, frame, derived, default_fee_payer, pc, clock>>

AddAta(pubkey, label, mint_key, owner) ==
    /\ pc = "book"
    /\ Call("add_ata", pubkey, label, ata(pubkey, mint_key, owner),
            add_ata(Book, pubkey, label, mint_key, owner))
    /\ UNCHANGED <<curve, frame, derived, default_fee_payer, pc, clock>>

AddCustom(pubkey, label, custom_role) ==
    /\ pc = "book"
    /\ Call("add_custom", pubkey, label, custom(pubkey, custom_role),
            add_custom(Book, pubkey, label, custom_role))
    /\ UNCHANGED <<curve, frame, derived, default_fee_payer, pc, clock>>

AddPda(pubkey, label, seeds, program_id, bump) ==
    /\ pc = "book"
    /\ Call("add_pda", pubkey, label, pda_from_parts(pubkey, seeds, program_id, bump),
            add_pda(Book, pubkey, label, seeds, program_id, bump))
    /\ UNCHANGED <<curve, frame, derived, default_fee_payer, pc, clock>>

AddProgram(pubkey, label) ==
    /\ pc = "book"
    /\ Call("add_program", pubkey, label, program(pubkey),
            add_program(Book, pubkey, label))
    /\ UNCHANGED <<curve, frame, derived, default_fee_payer, pc, clock>>

\* AddressBook::add called directly: registered_address.key need not be pubkey.
Add(pubkey, label, registered_address) ==
    /\ pc = "book"
    /\ Call("add", pubkey, label, registered_address,
            add(Book, pubkey, label, registered_address))
    /\ UNCHANGED <<curve, frame, derived, default_fee_payer, pc, clock>>

AddDefaultAccounts ==
    /\ pc = "book"
    /\ Running
    /\ LET r == add_default_accounts(Book) IN
         /\ SetBook(r.book)
         /\ last' = [op |-> "add_default_accounts", outcome |-> Outcome(r),
                     changed |-> r.book # Book]
    /\ UNCHANGED <<curve, frame, derived, default_fee_payer, pc, clock>>

\* What a derivation call gave: the pair, or the panic.
DeriveOutcome(r) ==
    IF r.panic THEN [panic |-> TRUE]
    ELSE [panic |-> FALSE, key |-> r.key, bump |-> r.bump]

\* `derived` keeps one derivation of the run, any one, to compare later calls
\* with: its input, the function called and what it gave.
Remember(op, seeds, program_id, outcome) ==
    \/ derived' = derived
    \/ /\ derived = << >>
       /\ derived' = (<<seeds, program_id>> :> [op |-> op, outcome |-> outcome])

\* AddressBook::find_pda_with_bump
FindPdaWithBump(label, seeds, program_id) ==
    /\ pc = "book"
    /\ Running
    /\ LET r == AddressBook_find_pda_with_bump(Book, label, seeds, program_id) IN
         /\ SetBook(r.book)
         /\ last' = [op |-> "AddressBook::find_pda_with_bump",
                     label |-> label, seeds |-> seeds, program_id |-> program_id,
                     outcome |-> IF r.panic THEN "panic" ELSE Outcome(r),
                     changed |-> r.book # Book,
                     ret |-> IF r.ok THEN DeriveOutcome(r) ELSE [panic |-> r.panic]]
         /\ IF r.ok \/ r.panic
            THEN Remember("AddressBook::find_pda_with_bump", seeds, program_id,
                          DeriveOutcome(r))
            ELSE derived' = derived
    /\ UNCHANGED <<curve, frame, default_fee_payer, pc, clock>>

\* pda_seeds::find_pda_with_bump
DeriveBasic(seeds, program_id) ==
    /\ pc = "book"
    /\ Running
    /\ LET r == find_pda_with_bump(seeds, program_id) IN
         /\ last' = [op |-> "find_pda_with_bump",
                     seeds |-> seeds, program_id |-> program_id,
                     outcome |-> IF r.panic THEN "panic" ELSE "ok",
                     changed |-> FALSE,
                     ret |-> DeriveOutcome(r)]
         /\ Remember("find_pda_with_bump", seeds, program_id, DeriveOutcome(r))
    /\ UNCHANGED <<book_vars, curve, frame, default_fee_payer, pc, clock>>

\* pda_seeds::find_pda_with_bump_and_strings
DeriveWithStrings(seeds, program_id) ==
    /\ pc = "book"
    /\ Running
    /\ LET r == find_pda_with_bump_and_strings(seeds, program_id) IN
         /\ last' = [op |-> "find_pda_with_bump_and_strings",
                     seeds |-> seeds, program_id |-> program_id,
                     outcome |-> IF r.panic THEN "panic" ELSE "ok",
                     changed |-> FALSE,
                     ret |-> DeriveOutcome(r),
                     pda |-> r]
         /\ Remember("find_pda_with_bump_and_strings", seeds, program_id,
                     DeriveOutcome(r))
    /\ UNCHANGED <<book_vars, curve, frame, default_fee_payer, pc, clock>>

-----------------------------------------------------------------------------
(* The registry on its own *)

Init ==
    /\ addresses = AddressBook_new.addresses
    /\ registered_addresses = AddressBook_new.registered_addresses
    /\ labels = AddressBook_new.labels
    /\ last = [op |-> "new", outcome |-> "ok", changed |-> FALSE]
    /\ curve = {Key(4242)}
    /\ derived = << >>
    /\ default_fee_payer = << >>
    /\ pc = "book"
    /\ frame = << >>
    /\ clock = Clock_default

Next ==
    \/ \E pubkey \in {K1, K2}, label \in CallLabels : AddWallet(pubkey, label)
    \/ \E pubkey \in {K1, K2}, label \in CallLabels : AddMint(pubkey, label)
    \/ \E label \in CallLabels : AddAta(K2, label, K1, K3)
    \/ \E label \in CallLabels : AddCustom(K1, label, S_governance)
    \/ \E label \in CallLabels : AddPda(K2, label, <<S_v>>, TokenProgramId, MaxBump)
    \/ \E label \in CallLabels : AddProgram(TokenProgramId, label)
    \/ \E label \in CallLabels : Add(K1, label, wallet(K2))
    \/ \E label \in CallLabels : FindPdaWithBump(label, <<Seed_v>>, TokenProgramId)
    \/ AddDefaultAccounts

Spec == Init /\ [][Next]_vars

-----------------------------------------------------------------------------
(* TestSVM::init, statement by statement, and the registrations a test makes *)
(* through the TestSVM afterwards                                            *)

L_wallet_prefix == <<"w","a","l","l","e","t",":">>
L_mint_prefix == <<"m","i","n","t",":">>
Names == {<<"a">>, <<"b">>}

\* let default_fee_payer = new_funded_account(..)?  (Keypair::new, then airdrop)
InitNewFundedAccount(pubkey, airdropped) ==
    /\ pc = "init:49"
    /\ default_fee_payer' = IF airdropped THEN pubkey ELSE default_fee_payer
    /\ pc' = IF airdropped THEN "init:50" ELSE "init:err"
    /\ last' = [op |-> "new_funded_account",
                outcome |-> IF airdropped THEN "ok" ELSE "err", changed |-> FALSE]
    /\ UNCHANGED <<book_vars, curve, frame, derived, clock>>

\* let mut address_book = AddressBook::new()
InitAddressBookNew ==
    /\ pc = "init:50"
    /\ SetBook(AddressBook_new)
    /\ pc' = "init:51"
    /\ last' = [op |-> "new", outcome |-> "ok", changed |-> FALSE]
    /\ UNCHANGED <<curve, frame, derived, default_fee_payer, clock>>

\* address_book.add_default_accounts()?
InitAddDefaultAccounts ==
    /\ pc = "init:51"
    /\ LET r == add_default_accounts(Book) IN
         /\ SetBook(r.book)
         /\ pc' = IF r.ok THEN "init:54" ELSE "init:err"
         /\ last' = [op |-> "add_default_accounts", outcome |-> Outcome(r),
                     changed |-> r.book # Book]
    /\ UNCHANGED <<curve, frame, derived, default_fee_payer, clock>>

\* address_book.add_wallet(default_fee_payer.pubkey(), "default_fee_payer")?
InitAddFeePayer ==
    /\ pc = "init:54"
    /\ LET r == add_wallet(Book, default_fee_payer, L_default_fee_payer) IN
         /\ Call("add_wallet", default_fee_payer, L_default_fee_payer,
                 wallet(default_fee_payer), r)
         /\ pc' = IF r.ok THEN "ready" ELSE "init:err"
    /\ UNCHANGED <<curve, frame, derived, default_fee_payer, clock>>

\* TestSVM::new_wallet
NewWallet(name, pubkey, airdropped) ==
    /\ pc = "ready"
    /\ IF airdropped
       THEN Call("new_wallet", pubkey, L_wallet_prefix \o name, wallet(pubkey),
                 add_wallet(Book, pubkey, L_wallet_prefix \o name))
       ELSE /\ Running
            /\ last' = [op |-> "new_wallet", outcome |-> "err", changed |-> FALSE]
            /\ UNCHANGED book_vars
    /\ UNCHANGED <<curve, frame, derived, default_fee_payer, pc, clock>>

\* TestSVM::create_mint
CreateMint(name, pubkey, executed) ==
    /\ pc = "ready"
    /\ IF executed
       THEN Call("create_mint", pubkey, L_mint_prefix \o name, mint(pubkey),
                 add_mint(Book, pubkey, L_mint_prefix \o name))
       ELSE /\ Running
            /\ last' = [op |-> "create_mint", outcome |-> "err", changed |-> FALSE]
            /\ UNCHANGED book_vars
    /\ UNCHANGED <<curve, frame, derived, default_fee_payer, pc, clock>>

\* TestSVM::add_program_from_path
AddProgramFromPath(label, pubkey, loaded) ==
    /\ pc = "ready"
    /\ IF loaded
       THEN Call("add_program_from_path", pubkey, label, program(pubkey),
                 add_program(Book, pubkey, label))
       ELSE /\ Running
            /\ last' = [op |-> "add_program_from_path", outcome |-> "err",
                        changed |-> FALSE]
            /\ UNCHANGED book_vars
    /\ UNCHANGED <<curve, frame, derived, default_fee_payer, pc, clock>>

InitSVM ==
    /\ addresses = AddressBook_new.addresses
    /\ registered_addresses = AddressBook_new.registered_addresses
    /\ labels = AddressBook_new.labels
    /\ last = [op |-> "init", outcome |-> "ok", changed |-> FALSE]
    /\ curve = {Key(4242)}
    /\ derived = << >>
    /\ default_fee_payer = << >>
    /\ pc = "init:49"
    /\ frame = << >>
    /\ clock = Clock_default

NextSVM ==
    \/ \E pubkey \in {K1, K2}, airdropped \in BOOLEAN :
          InitNewFundedAccount(pubkey, airdropped)
    \/ InitAddressBookNew
    \/ InitAddDefaultAccounts
    \/ InitAddFeePayer
    \/ \E name \in Names, pubkey \in {K1, K2}, airdropped \in BOOLEAN :
          NewWallet(name, pubkey, airdropped)
    \/ \E pubkey \in {K2, K3}, executed \in BOOLEAN :
          CreateMint(<<"a">>, pubkey, executed)
    \/ \E label \in {L_vault, L_token_program}, pubkey \in {K3, TokenProgramId},
          loaded \in BOOLEAN :
          AddProgramFromPath(label, pubkey, loaded)

SpecSVM == InitSVM /\ [][NextSVM]_vars

-----------------------------------------------------------------------------
(* Advancing the clock of the LiteSVM a TestSVM owns *)

\* The arguments a test passes: none, a few seconds, around 450, and values
\* with the top bit set.
Seconds == {0, 1, 2, 449, 450, 451, I64_MAX + 1, U64_MAX}

\* TestSVM::advance_time(seconds), in a build with or without overflow
\* checks; a test makes up to MaxAdvances calls.
AdvanceTime(seconds, overflow_checks) ==
    /\ pc = "ready"
    /\ Running
    /\ last.op = "advance_time" => last.calls < MaxAdvances
    /\ LET r == advance_time(clock, seconds, overflow_checks) IN
         /\ clock' = r.clock
         /\ last' = [op |-> "advance_time", seconds |-> seconds, before |-> clock,
                     outcome |-> IF r.panic THEN "panic" ELSE "ok",
                     changed |-> FALSE,
                     calls |-> IF last.op = "advance_time" THEN last.calls + 1 ELSE 1]
    /\ UNCHANGED <<book_vars, curve, frame, derived, default_fee_payer, pc>>

NextClock ==
    \/ \E airdropped \in BOOLEAN : InitNewFundedAccount(K1, airdropped)
    \/ InitAddressBookNew
    \/ InitAddDefaultAccounts
    \/ InitAddFeePayer
    \/ \E seconds \in Seconds, overflow_checks \in BOOLEAN :
          AdvanceTime(seconds, overflow_checks)

SpecClock == InitSVM /\ [][NextClock]_vars

-----------------------------------------------------------------------------
(* Derivation, alone and through the registry *)

Curves == {{}, Digests} \cup {{d} : d \in Digests}

InitDerive ==
    /\ addresses = AddressBook_new.addresses
    /\ registered_addresses = AddressBook_new.registered_addresses
    /\ labels = AddressBook_new.labels
    /\ last = [op |-> "new", outcome |-> "ok", changed |-> FALSE]
    /\ curve \in Curves
    /\ derived = << >>
    /\ default_fee_payer = << >>
    /\ pc = "book"
    /\ frame = << >>
    /\ clock = Clock_default

NextDerive ==
    \/ \E in \in DeriveInputs : DeriveBasic(in[1], in[2])
    \/ \E in \in DeriveInputs : DeriveWithStrings(in[1], in[2])
    \/ \E seeds \in SeedLists : FindPdaWithBump(L_vault, seeds, TokenProgramId)
    \/ AddWallet(K1, L_vault)

SpecDerive == InitDerive /\ [][NextDerive]_vars

-----------------------------------------------------------------------------
(* Pubkey::try_find_program_address, one loop iteration per step *)

AllCurves == SUBSET Digests

\* let mut bump_seed = [u8::MAX]; for _ in 0..u8::MAX { .. }
search_start(seeds, program_id) ==
    [seeds |-> seeds, program_id |-> program_id, bump_seed |-> MaxBump,
     i |-> 0, examined |-> 0, result |-> "running"]

\* Variant of loop_body: a rejected candidate ends the search.
loop_body_break(f) ==
    IF f.i = MaxBump
    THEN [f EXCEPT !.result = "none"]
    ELSE LET r == create_program_address(Append(f.seeds, <<f.bump_seed>>), f.program_id) IN
         IF r.err = "none"
         THEN [f EXCEPT !.result = "some", !.examined = @ + 1]
         ELSE [f EXCEPT !.result = "none", !.examined = @ + 1]

\* Variant of loop_body: `loop { .. }` with a wrapping decrement instead of
\* `for _ in 0..u8::MAX`.
loop_body_unbounded(f) ==
    LET r == create_program_address(Append(f.seeds, <<f.bump_seed>>), f.program_id) IN
    IF r.err = "none"
    THEN [f EXCEPT !.result = "some", !.examined = @ + 1]
    ELSE IF r.err = "InvalidSeeds"
         THEN [f EXCEPT !.bump_seed = (@ + MaxBump) % (MaxBump + 1),
                        !.examined = @ + 1]
         ELSE [f EXCEPT !.result = "none", !.examined = @ + 1]

\* One turn of the loop: the range 0..u8::MAX is exhausted, or the candidate
\* is accepted (return Some), rejected as on the curve (bump_seed -= 1) or
\* refused for another reason (break).
loop_body(f) ==
    IF f.i = MaxBump
    THEN [f EXCEPT !.result = "none"]
    ELSE LET r == create_program_address(Append(f.seeds, <<f.bump_seed>>), f.program_id) IN
         IF r.err = "none"
         THEN [f EXCEPT !.result = "some", !.examined = @ + 1]
         ELSE IF r.err = "InvalidSeeds"
              THEN [f EXCEPT !.bump_seed = @ - 1, !.i = @ + 1, !.examined = @ + 1]
              ELSE [f EXCEPT !.result = "none", !.examined = @ + 1]

SearchEnter(seeds, program_id) ==
    /\ pc = "book"
    /\ frame = << >>
    /\ frame' = search_start(seeds, program_id)
    /\ last' = [op |-> "enter", outcome |-> "ok", changed |-> FALSE]
    /\ UNCHANGED <<book_vars, curve, derived, default_fee_payer, pc, clock>>

SearchStep ==
    /\ frame # << >>
    /\ frame.result = "running"
    /\ frame' = loop_body(frame)
    /\ UNCHANGED <<book_vars, last, curve, derived, default_fee_payer, pc, clock>>

SearchReturn ==
    /\ frame # << >>
    /\ frame.result # "running"
    /\ last' = [op |-> "try_find_program_address", seeds |-> frame.seeds,
                program_id |-> frame.program_id, outcome |-> "ok",
                changed |-> FALSE, examined |-> frame.examined,
                ret |-> IF frame.result = "some"
                        THEN [some |-> TRUE,
                              key |-> Digest(Append(frame.seeds, <<frame.bump_seed>>),
                                             frame.program_id),
                              bump |-> frame.bump_seed]
                        ELSE [some |-> FALSE]]
    /\ frame' = << >>
    /\ UNCHANGED <<book_vars, curve, derived, default_fee_payer, pc, clock>>

InitSearch ==
    /\ addresses = AddressBook_new.addresses
    /\ registered_addresses = AddressBook_new.registered_addresses
    /\ labels = AddressBook_new.labels
    /\ last = [op |-> "new", outcome |-> "ok", changed |-> FALSE]
    /\ curve \in AllCurves
    /\ derived = << >>
    /\ default_fee_payer = << >>
    /\ pc = "book"
    /\ frame = << >>
    /\ clock = Clock_default

NextSearch ==
    \/ \E in \in DeriveInputs : SearchEnter(in[1], in[2])
    \/ SearchStep
    \/ SearchReturn

\* A loop that has started keeps running.
SpecSearch == InitSearch /\ [][NextSearch]_vars /\ WF_vars(SearchStep)

-----------------------------------------------------------------------------
(* The functions of pda_seeds.rs on their own *)

PdaSeedLists == { << >>, <<K1>>, <<Seed_v, K1>>, <<Seed_long>> }
PdaInputs == PdaSeedLists \X {TokenProgramId, K3}

\* Byte strings a caller may pass as one seed: printable, binary, mixed, of
\* every length up to one more than a key's.
SeedBytes == {7, 32, 118, 126, 255}
ByteSeqs == UNION {[1..n -> SeedBytes] : n \in 0..(KeyLen + 1)}

\* A DerivedPda the caller holds: as find_pda_with_bump_and_strings made it, or
\* with a public field overwritten.
Tampered(pda, how) ==
    CASE how = "none" -> pda
      [] how = "bump" -> [pda EXCEPT !.bump = IF @ = MaxBump THEN @ - 1 ELSE @ + 1]
      [] how = "key" -> [pda EXCEPT !.key = K1]

\* DerivedPda::verify, on the DerivedPda the last call returned
Verify(how, program_id) ==
    /\ pc = "book"
    /\ Running
    /\ last.op = "find_pda_with_bump_and_strings"
    /\ last.outcome = "ok"
    /\ LET pda == Tampered(last.pda, how)
           r == verify(pda, program_id)
       IN  last' = [op |-> "verify", pda |-> pda, program_id |-> program_id,
                    made_with |-> last.program_id, how |-> how,
                    outcome |-> IF r.panic THEN "panic" ELSE "ok",
                    changed |-> FALSE, ret |-> r]
    /\ UNCHANGED <<book_vars, curve, frame, derived, default_fee_payer, pc, clock>>

\* pda_seeds::seed_to_string
SeedToString(seed) ==
    /\ pc = "book"
    /\ Running
    /\ last' = [op |-> "seed_to_string", seed |-> seed, outcome |-> "ok",
                changed |-> FALSE, ret |-> seed_to_string(seed)]
    /\ UNCHANGED <<book_vars, curve, frame, derived, default_fee_payer, pc, clock>>

InitPda ==
    /\ addresses = AddressBook_new.addresses
    /\ registered_addresses = AddressBook_new.registered_addresses
    /\ labels = AddressBook_new.labels
    /\ last = [op |-> "new", outcome |-> "ok", changed |-> FALSE]
    /\ curve \in AllCurves
    /\ derived = << >>
    /\ default_fee_payer = << >>
    /\ pc = "book"
    /\ frame = << >>
    /\ clock = Clock_default

NextPda ==
    \/ \E in \in PdaInputs : DeriveBasic(in[1], in[2])
    \/ \E in \in PdaInputs : DeriveWithStrings(in[1], in[2])
    \/ \E how \in {"none", "bump", "key"}, program_id \in {TokenProgramId, K3} :
          Verify(how, program_id)

SpecPda == InitPda /\ [][NextPda]_vars

NextSeeds == \E seed \in ByteSeqs : SeedToString(seed)

SpecSeeds == Init /\ [][NextSeeds]_vars

-----------------------------------------------------------------------------
(* Rewriting log text with a registry *)

\* A label that quotes another key's address, as a caller may choose
L_for_k1 == <<"f", "o", "r", ":">> \o to_string(K1)

TextLabels == {L_alice, L_vault, L_for_k1}

\* Log texts: one address, an address twice, two addresses, no address
Texts ==
    { to_string(K2),
      <<"t", "o", " ">> \o to_string(K2) \o <<" ">> \o to_string(K2),
      to_string(K3) \o <<",">> \o to_string(K1),
      to_string(K3),
      <<"o", "k">> }


-----------------------------------------------------------------------------
(* The registry with its queries *)

\* A call of a method taking &self: the value is handed back, nothing of the
\* registry is assigned.
Query(op, arg, ret) ==
    /\ pc = "book"
    /\ Running
    /\ last' = [op |-> op, arg |-> arg, outcome |-> "ok", changed |-> FALSE,
                ret |-> ret]
    /\ UNCHANGED <<book_vars, curve, frame, derived, default_fee_payer, pc, clock>>

GetLabel(pubkey) == Query("get_label", pubkey, get_label(Book, pubkey))
Get(pubkey) == Query("get", pubkey, get(Book, pubkey))
GetFirst(pubkey) == Query("get_first", pubkey, get_first(Book, pubkey))
Contains(pubkey) == Query("contains", pubkey, contains(Book, pubkey))
LenOf == Query("len", << >>, len(Book))
IsEmpty == Query("is_empty", << >>, is_empty(Book))
FormatAddress(pubkey, colorize) ==
    Query("format_address", <<pubkey, colorize>>, format_address(Book, pubkey, colorize))

GetByRole(role) ==
    \E iter \in Perms(registered_addresses) :
        Query("get_by_role", role, get_by_role(Book, role, iter))

GetAllByRoleType(role_type) ==
    \E iter \in Perms(registered_addresses) :
        Query("get_all_by_role_type", role_type,
              get_all_by_role_type(Book, role_type, iter))

\* Variant of ReplaceAddressesInText: the key map is drained while it is read.
ReplaceAddressesInText_draining(text, colorize) ==
    /\ pc = "book"
    /\ Running
    /\ \E iter \in Perms(DOMAIN addresses) :
          last' = [op |-> "replace_addresses_in_text", text |-> text, iter |-> iter,
                   colorize |-> colorize, outcome |-> "ok", changed |-> FALSE,
                   ret |-> replace_addresses_in_text(Book, text, iter, colorize)]
    /\ addresses' = << >>
    /\ UNCHANGED <<registered_addresses, labels, curve, frame, derived,
                   default_fee_payer, pc, clock>>

\* AddressBook::replace_addresses_in_text; the HashMap yields its keys in
\* some order iter
ReplaceAddressesInText(text, colorize) ==
    /\ pc = "book"
    /\ Running
    /\ \E iter \in Perms(DOMAIN addresses) :
          last' = [op |-> "replace_addresses_in_text", text |-> text, iter |-> iter,
                   colorize |-> colorize, outcome |-> "ok", changed |-> FALSE,
                   ret |-> replace_addresses_in_text(Book, text, iter, colorize)]
    /\ UNCHANGED <<book_vars, curve, frame, derived, default_fee_payer, pc, clock>>

NextText ==
    \/ AddWallet(K1, L_alice)
    \/ \E label \in {L_vault, L_for_k1} : AddMint(K2, label)
    \/ \E label \in {L_alice, L_for_k1} : AddProgram(K3, label)
    \/ \E text \in Texts, colorize \in BOOLEAN : ReplaceAddressesInText(text, colorize)

SpecText == Init /\ [][NextText]_vars

QueryKeys == {K1, K3}

NextQuery ==
    \/ AddWallet(K1, L_alice)
    \/ AddCustom(K1, L_vault, S_governance)
    \/ AddMint(K2, L_vault)
    \/ FindPdaWithBump(L_for_k1, <<Seed_v>>, TokenProgramId)
    \/ \E pubkey \in QueryKeys : GetLabel(pubkey)
    \/ \E pubkey \in QueryKeys : Get(pubkey)
    \/ \E pubkey \in QueryKeys : GetFirst(pubkey)
    \/ \E pubkey \in QueryKeys : Contains(pubkey)
    \/ LenOf
    \/ IsEmpty
    \/ \E pubkey \in QueryKeys, colorize \in BOOLEAN : FormatAddress(pubkey, colorize)
    \/ \E role \in {Wallet, Custom(S_governance)} : GetByRole(role)
    \/ \E role_type \in {"wallet", "custom", "token"} : GetAllByRoleType(role_type)
    \/ \E text \in Texts, colorize \in BOOLEAN : ReplaceAddressesInText(text, colorize)

SpecQuery == Init /\ [][NextQuery]_vars

-----------------------------------------------------------------------------
(* The registry with its scans by role *)

RoleQueries == {Wallet, Mint, Custom(S_governance), Custom(L_alice)}
RoleTypes == {"wallet", "mint", "custom", "pda", "token"}

NextRoles ==
    \/ \E pubkey \in {K1, K2}, label \in {L_alice, L_vault} : AddWallet(pubkey, label)
    \/ AddMint(K1, L_default_fee_payer)
    \/ \E custom_role \in {S_governance, L_vault} :
          AddCustom(K3, L_token_program, custom_role)
    \/ \E role \in RoleQueries : GetByRole(role)
    \/ \E role_type \in RoleTypes : GetAllByRoleType(role_type)

SpecRoles == Init /\ [][NextRoles]_vars

-----------------------------------------------------------------------------
(* Properties of the registry *)

AddOps ==
    {"add", "add_wallet", "add_mint", "add_ata", "add_custom", "add_pda", "add_program"}

\* A call that was one add(pubkey, label, registered_address).
IsAdd(call) == call.op \in AddOps

\* Every (key, position) of the per-key sequences, and the entry there.
Entries == UNION {{<<k, i>> : i \in 1..Len(addresses[k])} : k \in DOMAIN addresses}
EntryAt(e) == addresses[e[1]][e[2]]

IsPrefix(s, t) == Len(s) <= Len(t) /\ SubSeq(t, 1, Len(s)) = s

ModelKeys ==
    UserKeys \cup {SystemProgramId, TokenProgramId, AssociatedTokenProgramId} \cup Digests

\* C1: a register call whose label is already bound to a registration with a
\* different key or a different role returns an error and leaves all three
\* indices exactly as they were (so a key not contained before is not
\* contained after).
C1_ConflictingLabelRejected ==
    [][ (/\ IsAdd(last')
         /\ last'.label \in DOMAIN labels
         /\ \/ labels[last'.label].key # last'.pubkey
            \/ labels[last'.label].role # last'.ra.role)
        => /\ last'.outcome = "err"
           /\ UNCHANGED book_vars
           /\ (~contains(Book, last'.pubkey) => ~contains(BookNext, last'.pubkey)) ]_vars

\* A rejected registration of a bound label for a key that is still unknown.
C1_Witness ==
    /\ IsAdd(last)
    /\ last.outcome = "err"
    /\ last.label \in DOMAIN labels
    /\ labels[last.label].key # last.pubkey
    /\ ~contains(Book, last.pubkey)

\* C2: every label is bound to at most one registration: no label is in more
\* than one entry of the per-key sequences, and the labels of the entries are
\* exactly the keys of the label index.
C2_LabelBoundOnce ==
    /\ \A e1 \in Entries, e2 \in Entries :
           EntryAt(e1)[1] = EntryAt(e2)[1] => e1 = e2
    /\ {EntryAt(e)[1] : e \in Entries} = DOMAIN labels

\* Two labels are bound and the last call, on a bound label, failed.
C2_Witness ==
    /\ IsAdd(last)
    /\ last.outcome = "err"
    /\ Cardinality(DOMAIN labels) >= 2
    /\ \E k \in DOMAIN addresses : Len(addresses[k]) >= 2

\* C3: registering the identical (label, key, role) again, the registration
\* being one for the key passed, succeeds and leaves every index unchanged: no
\* second entry for the key, count() unchanged.
C3_IdempotentReRegistration ==
    [][ (/\ IsAdd(last')
         /\ last'.ra.key = last'.pubkey
         /\ last'.label \in DOMAIN labels
         /\ labels[last'.label] = last'.ra)
        => /\ last'.outcome = "ok"
           /\ UNCHANGED book_vars
           /\ len(BookNext) = len(Book)
           /\ get(BookNext, last'.pubkey) = get(Book, last'.pubkey) ]_vars

\* The same registration was made again: the call succeeded and changed nothing.
C3_Witness ==
    /\ IsAdd(last)
    /\ last.outcome = "ok"
    /\ ~last.changed
    /\ last.ra.key = last.pubkey
    /\ labels[last.label] = last.ra
    /\ \E i \in 1..Len(addresses[last.pubkey]) :
           addresses[last.pubkey][i] = <<last.label, last.ra>>

\* C4: registering a key under a label not used before succeeds, and the new
\* registration goes to the end of that key's sequence: get(key) lists the
\* key's registrations in the order they were made.
C4_RegistrationOrder ==
    [][ (IsAdd(last') /\ last'.label \notin DOMAIN labels)
        => /\ last'.outcome = "ok"
           /\ get(BookNext, last'.pubkey).some
           /\ get(BookNext, last'.pubkey).value =
                 (IF get(Book, last'.pubkey).some
                  THEN get(Book, last'.pubkey).value ELSE << >>)
                 \o << <<last'.label, last'.ra>> >>
           /\ \A k \in DOMAIN addresses :
                  k # last'.pubkey => addresses'[k] = addresses[k] ]_vars

\* A key registered under two labels, the second of them by the last call.
C4_Witness ==
    /\ IsAdd(last)
    /\ last.changed
    /\ get(Book, last.pubkey).some
    /\ Len(get(Book, last.pubkey).value) = 2
    /\ get(Book, last.pubkey).value[2] = <<last.label, last.ra>>
    /\ get(Book, last.pubkey).value[1][1] # last.label

\* The label a call gives a key it registers: add_default_accounts uses the
\* three fixed labels.
LabelGiven(call, k) ==
    IF call.op = "add_default_accounts"
    THEN (IF k = SystemProgramId THEN L_system_program
          ELSE IF k = TokenProgramId THEN L_token_program
          ELSE L_associated_token_program)
    ELSE call.label

\* C5: get_label is total: for an unregistered key it is the key's base58
\* text, for a registered key it is the label of the first registration made
\* for the key, whatever is registered later.
C5_LabelOfKey ==
    [][ \A k \in ModelKeys :
          /\ ~contains(BookNext, k) => get_label(BookNext, k) = to_string(k)
          /\ (~contains(Book, k) /\ contains(BookNext, k))
                => get_label(BookNext, k) = LabelGiven(last', k)
          /\ contains(Book, k) => get_label(BookNext, k) = get_label(Book, k) ]_vars

\* A key with a second registration still reports its first label; another key
\* is unregistered and reports its base58 text.
C5_Witness ==
    /\ IsAdd(last)
    /\ last.changed
    /\ Len(addresses[last.pubkey]) >= 2
    /\ get_label(Book, last.pubkey) # last.label
    /\ ~contains(Book, K3)
    /\ get_label(Book, K3) = [i \in 1..(KeyLen - 2) |-> "1"] \o <<"G","Y">>

\* C6: the three indices agree: a label is bound to R exactly when (label, R)
\* is exactly one entry of the per-key sequences, and then R is in the set;
\* nothing is in one index and missing from another.
C6_IndicesAgree ==
    /\ \A l \in DOMAIN labels :
          /\ Cardinality({e \in Entries : EntryAt(e) = <<l, labels[l]>>}) = 1
          /\ labels[l] \in registered_addresses
    /\ \A e \in Entries :
          /\ EntryAt(e)[1] \in DOMAIN labels
          /\ labels[EntryAt(e)[1]] = EntryAt(e)[2]
    /\ \A r \in registered_addresses : \E l \in DOMAIN labels : labels[l] = r
    /\ \A k \in DOMAIN addresses : Len(addresses[k]) > 0
    /\ (IsAdd(last) /\ last.changed)
          => /\ last.pubkey \in DOMAIN addresses
             /\ \E i \in 1..Len(addresses[last.pubkey]) :
                    addresses[last.pubkey][i] = <<last.label, last.ra>>

\* Three labels are bound, two of them for one key.
C6_Witness ==
    /\ Cardinality(DOMAIN labels) >= 3
    /\ Cardinality(registered_addresses) >= 3
    /\ \E k \in DOMAIN addresses : Len(addresses[k]) >= 2

\* C7: registrations are permanent: a bound label stays bound to the same
\* (key, role), per-key sequences only grow at the end (so the first label and
\* role of a key never change), and count() never decreases.
C7_RegistrationsPermanent ==
    [][ /\ \A l \in DOMAIN labels : l \in DOMAIN labels' /\ labels'[l] = labels[l]
        /\ \A k \in DOMAIN addresses :
              /\ k \in DOMAIN addresses'
              /\ IsPrefix(addresses[k], addresses'[k])
              /\ get_first(BookNext, k) = get_first(Book, k)
        /\ registered_addresses \subseteq registered_addresses'
        /\ len(BookNext) >= len(Book) ]_vars

\* A key has a first and a later registration, and the last call tried the
\* first one's label for another role and was refused.
C7_Witness ==
    /\ IsAdd(last)
    /\ last.outcome = "err"
    /\ contains(Book, last.pubkey)
    /\ Len(addresses[last.pubkey]) >= 2
    /\ get_first(Book, last.pubkey).label = last.label
    /\ get_first(Book, last.pubkey).registered_address.role # last.ra.role

C27_RepeatedAddSucceeds ==
    [][ IsAdd(last') =>
          /\ last'.outcome = "err" =>
                \E e \in Entries :
                    /\ EntryAt(e)[1] = last'.label
                    /\ \/ e[1] # last'.pubkey
                       \/ EntryAt(e)[2].role # last'.ra.role
          /\ (/\ IsAdd(last)
              /\ last.outcome = "ok"
              /\ last.pubkey = last'.pubkey
              /\ last.label = last'.label
              /\ last.ra = last'.ra)
                => last'.outcome = "ok" ]_vars

-----------------------------------------------------------------------------
(* Properties of start-up *)

DefaultPrograms ==
    { <<SystemProgramId, L_system_program>>,
      <<TokenProgramId, L_token_program>>,
      <<AssociatedTokenProgramId, L_associated_token_program>> }

DefaultLabels == {d[2] : d \in DefaultPrograms}

\* The three programs are registered as executables under their fixed labels.
DefaultsRegistered(book) ==
    \A d \in DefaultPrograms :
        /\ contains(book, d[1])
        /\ d[2] \in DOMAIN book.labels
        /\ book.labels[d[2]] = [key |-> d[1], role |-> [kind |-> "program"]]
        /\ get_first(book, d[1]).label = d[2]
        /\ get_first(book, d[1]).registered_address.role.kind = "program"

\* C8: add_default_accounts on the new registry of TestSVM::init succeeds and
\* registers the three well-known programs as executables under their fixed
\* labels; they are there before the default fee payer is registered and
\* before any registration a test makes.
C8_DefaultsFirst ==
    /\ pc \in {"init:54", "ready"} => DefaultsRegistered(Book)
    /\ last.op = "add_default_accounts"
          => last.outcome = "ok" /\ DefaultsRegistered(Book)
    /\ pc = "init:54" => DOMAIN labels = DefaultLabels
    /\ (DOMAIN labels \ DefaultLabels # {}) => DefaultsRegistered(Book)
    /\ pc \in {"init:49", "init:50", "init:51"} => DOMAIN labels = {}

\* The defaults are in, the fee payer is not yet.
C8_Witness ==
    /\ pc = "init:54"
    /\ last.op = "add_default_accounts"
    /\ contains(Book, SystemProgramId)
    /\ contains(Book, TokenProgramId)
    /\ contains(Book, AssociatedTokenProgramId)
    /\ ~contains(Book, default_fee_payer)
    /\ L_default_fee_payer \notin DOMAIN labels

\* The default programs in the order add_default_accounts registers them.
DefaultOrder ==
    << <<SystemProgramId, L_system_program>>,
       <<TokenProgramId, L_token_program>>,
       <<AssociatedTokenProgramId, L_associated_token_program>> >>

\* The label of the i-th default program is bound to something else.
DefaultConflicts(i) ==
    /\ DefaultOrder[i][2] \in DOMAIN labels
    /\ labels[DefaultOrder[i][2]] # program(DefaultOrder[i][1])

\* The first default program whose label conflicts; 4 when none does.
FirstDefaultConflict ==
    IF \E i \in 1..3 : DefaultConflicts(i)
    THEN CHOOSE i \in 1..3 :
            DefaultConflicts(i) /\ \A j \in 1..(i - 1) : ~DefaultConflicts(j)
    ELSE 4

\* C30: add_default_accounts registers the system, token and associated
\* token programs in that order and stops at the first label conflict with
\* an error: the programs before the conflicting one are registered when it
\* returns, the conflicting one and those after it are not touched; with no
\* conflict it succeeds, and on a registry that holds all three already it
\* succeeds and changes nothing.
C30_DefaultsStopAtConflict ==
    [][ last'.op = "add_default_accounts" =>
          LET first == FirstDefaultConflict IN
          /\ last'.outcome = (IF first = 4 THEN "ok" ELSE "err")
          /\ \A i \in 1..3 :
                LET key == DefaultOrder[i][1]
                    label == DefaultOrder[i][2]
                IN  IF i < first
                    THEN /\ label \in DOMAIN labels'
                         /\ labels'[label] = program(key)
                         /\ contains(BookNext, key)
                         /\ \E n \in 1..Len(addresses'[key]) :
                                addresses'[key][n] = <<label, program(key)>>
                    ELSE /\ label \in DOMAIN labels' <=> label \in DOMAIN labels
                         /\ label \in DOMAIN labels => labels'[label] = labels[label]
          /\ \A l \in DOMAIN labels' :
                l \in DOMAIN labels \/ \E i \in 1..(first - 1) : DefaultOrder[i][2] = l
          /\ DefaultsRegistered(Book) => (last'.outcome = "ok" /\ UNCHANGED book_vars)
          /\ last'.changed <=>
                \E i \in 1..(first - 1) : DefaultOrder[i][2] \notin DOMAIN labels ]_vars

\* The token program's label was taken: the call returned an error, the
\* system program is registered, the associated token program is not.
C30_Witness ==
    /\ last.op = "add_default_accounts"
    /\ last.outcome = "err"
    /\ last.changed
    /\ labels[L_system_program] = program(SystemProgramId)
    /\ labels[L_token_program] # program(TokenProgramId)
    /\ L_associated_token_program \notin DOMAIN labels
    /\ ~contains(Book, AssociatedTokenProgramId)

\* C28: advance_time(seconds) advances the clock's unix timestamp by exactly
\* the given number of seconds and the slot by the number of slots that
\* elapse in that time at 450 milliseconds per slot.
C28_AdvanceTime ==
    (last.op = "advance_time" /\ last.outcome = "ok")
    => /\ clock.unix_timestamp = last.before.unix_timestamp + last.seconds
       /\ clock.slot = last.before.slot + ((last.seconds * 1000) \div 450)

-----------------------------------------------------------------------------
(* Properties of derivation *)

\* C9: AddressBook::find_pda_with_bump derives (key, bump) from the seeds and
\* the program id and registers key under the label as a Pda carrying the
\* seeds' debug strings, the program id and the bump; on success it returns
\* exactly the derived pair; when the label is bound to a different
\* (key, role) it returns an error and the registry is unchanged.
C9_DeriveAndRegister ==
    [][ (last'.op = "AddressBook::find_pda_with_bump" /\ last'.outcome # "panic")
        => LET d == find_pda_with_bump(last'.seeds, last'.program_id)
               strings == [i \in 1..Len(last'.seeds) |-> seed_to_string(last'.seeds[i])]
               ra == [key |-> d.key,
                      role |-> [kind |-> "pda", seeds |-> strings,
                                program_id |-> last'.program_id, bump |-> d.bump]]
           IN  /\ ~d.panic
               /\ IF last'.label \in DOMAIN labels /\ labels[last'.label] # ra
                  THEN last'.outcome = "err" /\ UNCHANGED book_vars
                  ELSE /\ last'.outcome = "ok"
                       /\ last'.ret = [panic |-> FALSE, key |-> d.key, bump |-> d.bump]
                       /\ labels'[last'.label] = ra
                       /\ ra \in registered_addresses'
                       /\ contains(BookNext, d.key)
                       /\ \E i \in 1..Len(addresses'[d.key]) :
                              addresses'[d.key][i] = <<last'.label, ra>>
                       /\ last'.label \in DOMAIN labels => UNCHANGED book_vars ]_vars

\* A derivation that had to step past a candidate was registered and returned.
C9_Witness ==
    /\ last.op = "AddressBook::find_pda_with_bump"
    /\ last.outcome = "ok"
    /\ last.changed
    /\ last.ret.bump < MaxBump
    /\ Len(last.seeds) = 2
    /\ labels[last.label].key = last.ret.key
    /\ labels[last.label].role.bump = last.ret.bump

DeriveOps ==
    {"find_pda_with_bump", "find_pda_with_bump_and_strings",
     "AddressBook::find_pda_with_bump"}

-----------------------------------------------------------------------------
(* Properties of the scans by role *)

\* The registrations held per key: every (label, RegisteredAddress) entry.
Registrations == {EntryAt(e)[2] : e \in Entries}

Range(seq) == {seq[i] : i \in 1..Len(seq)}

\* C22: get_by_role(role) returns some key exactly when a registration has a
\* role equal to the given one, payload included, and the key is that of such
\* a registration, whichever the set yields first; it returns none exactly
\* when no registration has the role.
C22_GetByRole ==
    last.op = "get_by_role"
    => LET matching == {ra \in Registrations : ra.role = last.arg} IN
       /\ last.ret.some <=> matching # {}
       /\ last.ret.some => \E ra \in matching : ra.key = last.ret.value

\* Two keys are registered as wallets beside a custom role, and the scan gave
\* a wallet other than the one labelled first.
C22_Witness ==
    /\ last.op = "get_by_role"
    /\ last.arg = Wallet
    /\ last.ret.some
    /\ Cardinality({ra \in Registrations : ra.role = Wallet}) = 2
    /\ \E ra \in Registrations : ra.role.kind = "custom"
    /\ addresses[K1][1][1] = L_alice
    /\ last.ret.value = K2

\* C23: get_all_by_role_type(kind) returns every key that has a registration
\* of the given variant, whatever the payload, and no key whose registrations
\* are all of other variants; a string naming no variant gives the empty
\* sequence.
C23_GetAllByRoleType ==
    last.op = "get_all_by_role_type"
    => /\ Range(last.ret)
            = {ra.key : ra \in {r \in Registrations : r.role.kind = last.arg}}
       /\ \A k \in DOMAIN addresses :
              (\A i \in 1..Len(addresses[k]) : addresses[k][i][2].role.kind # last.arg)
                  => k \notin Range(last.ret)
       /\ last.arg \notin {"wallet", "mint", "ata", "pda", "program", "custom"}
              => last.ret = << >>

\* Two wallets are registered beside a mint and a custom role, and the
\* wallets were asked for.
C23_Witness ==
    /\ last.op = "get_all_by_role_type"
    /\ last.arg = "wallet"
    /\ Range(last.ret) = {K1, K2}
    /\ \E ra \in Registrations : ra.role = Mint
    /\ \E ra \in Registrations : ra.role = Custom(L_vault)

\* The call inserted a registration for key k.
InsertedFor(call, k) ==
    /\ call.changed
    /\ \/ IsAdd(call) /\ call.pubkey = k
       \/ call.op = "AddressBook::find_pda_with_bump" /\ call.ret.key = k

\* C24: contains(key) is true exactly when a registration was inserted for
\* the key; len() is the number of distinct keys with a registration, not the
\* number of registrations or labels: it starts at 0 and goes up by one
\* exactly when a registration is inserted for a key not contained before;
\* is_empty() is true exactly when len() is 0.
C24_ContainsLenIsEmpty ==
    /\ len(Book) = 0
    /\ \A k \in ModelKeys : ~contains(Book, k)
    /\ [][ /\ \A k \in ModelKeys :
                 contains(BookNext, k) <=> (contains(Book, k) \/ InsertedFor(last', k))
           /\ len(BookNext) =
                 len(Book) + (IF \E k \in ModelKeys :
                                    InsertedFor(last', k) /\ ~contains(Book, k)
                              THEN 1 ELSE 0)
           /\ last'.op = "contains" => last'.ret = contains(Book, last'.arg)
           /\ last'.op = "len" => last'.ret = len(Book)
           /\ last'.op = "is_empty" => last'.ret = is_empty(Book) ]_vars
    /\ [](is_empty(Book) <=> len(Book) = 0)
    /\ [](len(Book) = Cardinality({k \in ModelKeys : contains(Book, k)}))

\* len() gave 2 with three labels bound, two of them for one key.
C24_Witness ==
    /\ last.op = "len"
    /\ last.ret = 2
    /\ Cardinality(DOMAIN labels) = 3
    /\ Len(addresses[K1]) = 2
    /\ ~is_empty(Book)

-----------------------------------------------------------------------------
(* Properties of the discriminator search *)

WithinLimits(seeds) ==
    /\ Len(seeds) + 1 <= MaxSeeds
    /\ \A i \in 1..Len(seeds) : Len(seeds[i]) <= MaxSeedLen

\* The candidates of lo..MaxBump whose hash of (seeds..., b) is off the curve.
OffCurve(seeds, program_id, lo) ==
    {b \in lo..MaxBump : Digest(Append(seeds, <<b>>), program_id) \notin curve}

Largest(S) == CHOOSE b \in S : \A c \in S : c <= b

Returned == last.op = "try_find_program_address" /\ WithinLimits(last.seeds)

C12_OffCurve ==
    (last.op \in DeriveOps /\ last.outcome = "ok")
    => /\ ~bytes_are_curve_point(last.ret.key)
       /\ last.op = "find_pda_with_bump_and_strings"
             => ~bytes_are_curve_point(last.pda.key)

\* The empty seed sequence was derived from after some candidate was rejected,
\* or a single seed of the greatest length was.
C12_Witness ==
    /\ last.op = "find_pda_with_bump_and_strings"
    /\ last.outcome = "ok"
    /\ last.seeds \in { << >>, <<K1>> }
    /\ Len(K1) = MaxSeedLen
    /\ last.ret.bump < MaxBump
    /\ curve # {}

\* C15: DerivedPda::verify(program_id) is true exactly when deriving again
\* from the stored seed bytes under program_id gives the stored key and the
\* stored bump; so what find_pda_with_bump_and_strings(seeds, P) returned
\* verifies against P, and nothing verifies against a program id whose
\* derivation gives another key or bump.
C15_VerifyRederives ==
    (last.op = "verify" /\ last.outcome = "ok")
    => LET off == OffCurve(last.pda.seeds, last.program_id, 1)
           b == Largest(off)
           reproduced ==
               /\ off # {}
               /\ last.pda.bump = b
               /\ last.pda.key = Digest(Append(last.pda.seeds, <<b>>), last.program_id)
       IN  /\ last.ret.value = reproduced
           /\ (last.how = "none" /\ last.program_id = last.made_with)
                 => last.ret.value

\* A DerivedPda found below the first candidate verified against its own
\* program id.
C15_Witness ==
    /\ last.op = "verify"
    /\ last.outcome = "ok"
    /\ last.how = "none"
    /\ last.program_id = last.made_with
    /\ last.ret.value
    /\ last.pda.bump < MaxBump
    /\ Len(last.pda.seeds) >= 1

\* The bytes of the debug strings of a seed sequence.
StringBytes(seeds) == [i \in 1..Len(seeds) |-> as_bytes(seed_to_string(seeds[i]))]

\* C21: the debug strings of the seeds do not influence derivation: the key
\* and bump find_pda_with_bump_and_strings returns are those of the largest
\* candidate whose hash of the raw seed bytes, in order, and the program id is
\* off the curve, whatever the debug strings are, and the seeds stored in the
\* result are the input bytes unmodified.
C21_DebugStringsInert ==
    (last.op = "find_pda_with_bump_and_strings" /\ last.outcome = "ok")
    => LET off == OffCurve(last.seeds, last.program_id, 1) IN
       /\ off # {}
       /\ last.pda.bump = Largest(off)
       /\ last.pda.key = Digest(Append(last.seeds, <<Largest(off)>>), last.program_id)
       /\ last.pda.seeds = last.seeds
       /\ last.ret = [panic |-> FALSE, key |-> last.pda.key, bump |-> last.pda.bump]

\* A seed whose debug string has other bytes than the seed was derived from,
\* and deriving from the bytes of the debug string would have given another
\* result.
C21_Witness ==
    /\ last.op = "find_pda_with_bump_and_strings"
    /\ last.outcome = "ok"
    /\ StringBytes(last.seeds) # last.seeds
    /\ last.pda.seed_strings # << >>
    /\ find_program_address(StringBytes(last.seeds), last.program_id) # last.ret

\* The derivation remembered was made from the inputs of the last call, by the
\* function op.
RememberedBy(op) ==
    /\ <<last.seeds, last.program_id>> \in DOMAIN derived
    /\ derived[<<last.seeds, last.program_id>>].op = op

\* C26: find_pda_with_bump_and_strings agrees with find_pda_with_bump: from
\* the same seeds and program id both give the same key and bump (and fail
\* together), in either order of calling; the DerivedPda holds one byte
\* string and one debug string per seed, in the order of the input, each byte
\* string being the seed's bytes and each debug string seed_to_string of it.
C26_StringsAgreesWithBasic ==
    /\ last.op = "find_pda_with_bump_and_strings" =>
          /\ last.ret = DeriveOutcome(find_pda_with_bump(last.seeds, last.program_id))
          /\ RememberedBy("find_pda_with_bump")
                => derived[<<last.seeds, last.program_id>>].outcome = last.ret
          /\ last.outcome = "ok" =>
                /\ last.ret = [panic |-> FALSE, key |-> last.pda.key,
                               bump |-> last.pda.bump]
                /\ Len(last.pda.seeds) = Len(last.seeds)
                /\ Len(last.pda.seed_strings) = Len(last.seeds)
                /\ \A i \in 1..Len(last.seeds) :
                       /\ last.pda.seeds[i] = last.seeds[i]
                       /\ last.pda.seed_strings[i] = seed_to_string(last.seeds[i])
    /\ (last.op = "find_pda_with_bump"
           /\ RememberedBy("find_pda_with_bump_and_strings"))
          => derived[<<last.seeds, last.program_id>>].outcome = last.ret

\* Two seeds, a text and a key, were derived from by find_pda_with_bump and
\* then by find_pda_with_bump_and_strings, below the first candidate.
C26_Witness ==
    /\ last.op = "find_pda_with_bump_and_strings"
    /\ last.outcome = "ok"
    /\ RememberedBy("find_pda_with_bump")
    /\ last.seeds = <<Seed_v, K1>>
    /\ last.pda.seed_strings = <<S_v, to_string(K1)>>
    /\ last.pda.bump < MaxBump

\* A derivation from these inputs fails: a seed is too long, or every one of
\* the candidates lo..u8::MAX is on the curve.
Fails(seeds, program_id, lo) ==
    \/ ~WithinLimits(seeds)
    \/ OffCurve(seeds, program_id, lo) = {}

C14_SearchTerminates ==
    /\ [](frame # << >> => frame.examined <= MaxBump + 1)
    /\ [](last.op = "try_find_program_address" => last.examined <= MaxBump + 1)
    /\ ((frame # << >> /\ frame.result = "running")
           ~> (frame # << >> /\ frame.result # "running"))

\* Every candidate was examined and rejected, and the search returned none.
C14_Witness ==
    /\ last.op = "try_find_program_address"
    /\ ~last.ret.some
    /\ last.examined = MaxBump
    /\ frame = << >>

-----------------------------------------------------------------------------
(* Properties of rewriting *)

Occurs(pat, text) == \E i \in 1..Len(text) : starts_with_at(text, i, pat)

Rewrote == last.op = "replace_addresses_in_text"

\* What the key's first label looks like in the output of the last call
Rendering(k) ==
    LET entry == addresses[k][1] IN bold(entry[1], role_color(entry[2].role), last.colorize)

\* No registered key's address occurs in the text
AddressFree(text) == \A k \in DOMAIN addresses : ~Occurs(to_string(k), text)

\* C16: when the address of registered K1 is a substring of the address of
\* registered K2, a text containing K2's address comes out with K2's label at
\* that place, never with the rest of K2's address around K1's label.
C16_SubstringSafe ==
    Rewrote =>
        \A k1, k2 \in DOMAIN addresses :
            (/\ k1 # k2
             /\ Occurs(to_string(k1), to_string(k2))
             /\ Occurs(to_string(k2), last.text))
            => /\ Occurs(Rendering(k2), last.ret)
               /\ ~Occurs(str_replace(to_string(k2), to_string(k1), Rendering(k1)),
                          last.ret)

\* C17: a label put in place of an address is never altered by the
\* replacement of a key processed later: the label of every key whose
\* address stands in the text stands in the output as it was rendered.
C17_LabelsIntact ==
    Rewrote =>
        \A k \in DOMAIN addresses :
            (/\ Occurs(to_string(k), last.text)
             /\ \A k2 \in DOMAIN addresses \ {k} :
                    ~Occurs(to_string(k), to_string(k2)))
            => Occurs(Rendering(k), last.ret)

\* C18: keys are handled longest address first and every occurrence of a
\* key's address becomes the rendering of the key's first label; a text with
\* no registered address in it is returned as it is.
C18_RewriteEveryOccurrence ==
    Rewrote =>
        /\ AddressFree(last.text) => last.ret = last.text
        /\ \A k \in DOMAIN addresses :
              AddressFree(Rendering(k)) =>
                 /\ last.text = to_string(k) => last.ret = Rendering(k)
                 /\ last.text = <<"t", "o", " ">> \o to_string(k) \o <<" ">> \o to_string(k)
                       => last.ret = <<"t", "o", " ">> \o Rendering(k) \o <<" ">> \o Rendering(k)
                 /\ \A k2 \in DOMAIN addresses \ {k} :
                       (/\ AddressFree(Rendering(k2))
                        /\ last.text = to_string(k) \o <<",">> \o to_string(k2))
                       => last.ret = Rendering(k) \o <<",">> \o Rendering(k2)

\* Both occurrences of the longer address were given the first of the key's
\* two labels, with a key registered whose address is part of the longer one.
C18_Witness ==
    /\ Rewrote
    /\ K1 \in DOMAIN addresses
    /\ K2 \in DOMAIN addresses
    /\ Len(addresses[K2]) = 2
    /\ addresses[K2][1][1] = L_vault
    /\ last.text = <<"t", "o", " ">> \o to_string(K2) \o <<" ">> \o to_string(K2)
    /\ last.ret = <<"t", "o", " ">> \o Rendering(K2) \o <<" ">> \o Rendering(K2)
    /\ last.iter[1] = K1

\* C29: the result of replace_addresses_in_text is a function of the text
\* and the registry alone: whatever order the key map is iterated in, and so
\* whatever order keys of equal encoded length are processed in, the output
\* is the same.
C29_OrderIndependent ==
    Rewrote =>
        \A iter \in Perms(DOMAIN addresses) :
            replace_addresses_in_text(Book, last.text, iter, last.colorize) = last.ret

QueryOps ==
    {"get_label", "get", "get_first", "get_by_role", "get_all_by_role_type",
     "contains", "len", "is_empty", "format_address", "replace_addresses_in_text"}

\* C19: rewriting a text and every query leave the three indices as they
\* were; the registry changes only in a registration or in
\* AddressBook::find_pda_with_bump.
C19_QueriesChangeNothing ==
    [][ /\ last'.op \in QueryOps => UNCHANGED book_vars
        /\ book_vars' # book_vars
              => last'.op \in AddOps \cup {"AddressBook::find_pda_with_bump"} ]_vars

\* A text was rewritten with a registry of several registrations, which are
\* all still there.
C19_Witness ==
    /\ last.op = "replace_addresses_in_text"
    /\ last.ret # last.text
    /\ Cardinality(DOMAIN labels) >= 3
    /\ Cardinality(registered_addresses) >= 3
    /\ Cardinality(DOMAIN addresses) >= 2
    /\ \A l \in DOMAIN labels : contains(Book, labels[l].key)

-----------------------------------------------------------------------------
(* Properties of the debug strings *)

Printable(seed) == \A i \in 1..Len(seed) : seed[i] \in 32..126

\* C20: seed_to_string applies its rules in order: printable bytes (graphic
\* or space) come back as they are, the empty seed and a printable seed of a
\* key's length included; otherwise a seed of a key's length comes back as
\* the key's address; otherwise the lowercase hexadecimal digits come back.
C20_SeedToString ==
    last.op = "seed_to_string" =>
        IF Printable(last.seed)
        THEN /\ Len(last.ret) = Len(last.seed)
             /\ as_bytes(last.ret) = last.seed
        ELSE IF Len(last.seed) = KeyLen
        THEN /\ last.ret = to_string(last.seed)
             /\ \A i \in 1..Len(last.ret) :
                    \E j \in 1..Len(Base58Alphabet) : Base58Alphabet[j] = last.ret[i]
        ELSE /\ Len(last.ret) = 2 * Len(last.seed)
             /\ \A i \in 1..Len(last.seed) :
                    /\ last.ret[2 * i - 1] = HexDigits[(last.seed[i] \div 16) + 1]
                    /\ last.ret[2 * i] = HexDigits[(last.seed[i] % 16) + 1]
             /\ \A i \in 1..Len(last.ret) :
                    last.ret[i] \in {"0", "1", "2", "3", "4", "5", "6", "7", "8", "9",
                                     "a", "b", "c", "d", "e", "f"}

\* A printable seed of a key's length came back as its characters, not as an
\* address.
C20_Witness ==
    /\ last.op = "seed_to_string"
    /\ Len(last.seed) = KeyLen
    /\ Printable(last.seed)
    /\ \E i \in 1..Len(last.seed) : last.seed[i] = 32
    /\ last.ret # to_string(last.seed)
    /\ last.ret[1] \in {" ", "v", "~"}

====
